---- MODULE Spec2Model ----
(***************************************************************************)
(* AsyncZip (src/asynczip.py): aggregation of asynchronous iterables.      *)
(*                                                                         *)
(* The event loop is modelled by interleaving: a fetch task resolving, a   *)
(* done-callback the loop has scheduled running, and the consumer calling  *)
(* or being resumed in __anext__ are separate steps.  The code between     *)
(* two awaits of a coroutine is one step.                                  *)
(*                                                                         *)
(* The iterables are the environment: the n-th fetch on a source resolves  *)
(* to a value, to an exception that is not StopAsyncIteration, or to       *)
(* StopAsyncIteration, as the source chooses when the fetch resolves.      *)
(***************************************************************************)
EXTENDS Integers, Sequences, FiniteSets, TLC

\* Bounds of the model: the number of iterables, the number of items one
\* iterable yields, and the number of fetches that fail in one run.
MaxSources == 2
MaxItems == 2
MaxFailures == 1
\* ... and, where __aiter__ may be called again, the number of its calls.
MaxStarts == 2

FIRST_COMPLETED == "FIRST_COMPLETED"
ALL_COMPLETED == "ALL_COMPLETED"

VARIABLES
    yield_when,              \* self.yield_when
    asynchronous_iterables,  \* self.asynchronous_iterables
    asynchronous_iterators,  \* self.asynchronous_iterators
    iterating,               \* self.iterating: one future per source
    fetched,                 \* number of __anext__() calls made on each iterator
    resolved,                \* number of those calls that have resolved
    starts,                  \* number of __aiter__() calls made on the AsyncZip
    aiterCalls,              \* number of __aiter__() calls made on each iterable
    failures,                \* number of fetches that have failed
    pc,                      \* where the consumer of the AsyncZip is
    counter,                 \* __anext__'s local counter
    waiter,                  \* __anext__'s local waiter: TRUE when it is done
    listenning_for,          \* __anext__'s local listenning_for
    callbacks,               \* per future: how many _on_completion it has attached
    scheduled,               \* _on_completion calls of the current __anext__ the loop will run
    results,                 \* the row __anext__ returned last, as seen when returned
    nrows,                   \* how many rows __anext__ has returned
    shown                    \* per source: how many returned entries were a value or a failure

vars == <<yield_when, asynchronous_iterables, asynchronous_iterators,
          iterating, fetched, resolved, starts, aiterCalls, failures, pc,
          counter, waiter, listenning_for, callbacks, scheduled, results,
          nrows, shown>>

\* A fetch resolves to a value ("v"), to an exception that is not
\* StopAsyncIteration ("x"), or to StopAsyncIteration ("stop").
ItemKinds == {"v", "x"}
Resolutions == ItemKinds \cup {"stop"}

Sources == 1..Len(asynchronous_iterables)
Slots == 1..Len(iterating)

\* await iterator.__anext__() for asyncio.ensure_future(iterator.__anext__()):
\* the fetch has resolved when the statement ends.
EnsureFutureAwaited(i) == [n |-> fetched[i] + 1, done |-> TRUE, res |-> "v"]

\* asyncio.ensure_future(iterator.__anext__()): the next fetch on iterator i,
\* a future that is not done.
EnsureFuture(i) == [n |-> fetched[i] + 1, done |-> FALSE, res |-> "none"]

\* How the fetch f may resolve: a source yields at most MaxItems items, and
\* at most MaxFailures fetches fail.
MayResolve(f) ==
    {"stop"} \cup {r \in ItemKinds : /\ f.n <= MaxItems
                                     /\ r = "x" => failures < MaxFailures}

\* IsStop taking any exception for StopAsyncIteration.
IsStopAnyException(f) == f.done /\ f.res \in {"stop", "x"}

\* f.done() and isinstance(f.exception(), StopAsyncIteration)
IsStop(f) == f.done /\ f.res = "stop"

\* f.done() and not isinstance(f.exception(), StopAsyncIteration)
DoneNotStop(f) == f.done /\ f.res # "stop"

\* should_wait without its policy: it never asks to wait.
should_wait_never == FALSE

\* should_wait with the test of FIRST_COMPLETED under either policy.
should_wait_any ==
    IF \A i \in Slots : IsStop(iterating[i]) THEN FALSE
    ELSE ~ \E i \in Slots : DoneNotStop(iterating[i])

\* should_wait without its first test, of the iterators being all empty.
should_wait_policy_only ==
    IF yield_when = FIRST_COMPLETED
    THEN ~ \E i \in Slots : DoneNotStop(iterating[i])
    ELSE ~ \A i \in Slots : DoneNotStop(iterating[i])

should_wait ==
    IF \A i \in Slots : IsStop(iterating[i]) THEN FALSE
    ELSE IF yield_when = FIRST_COMPLETED
         THEN ~ \E i \in Slots : DoneNotStop(iterating[i])
    ELSE IF yield_when = ALL_COMPLETED
         THEN ~ \A i \in Slots : DoneNotStop(iterating[i])
    ELSE FALSE

\* _on_completion's test off by one: the waiter is set one callback early.
WaiterFiresEarly(c) == yield_when = FIRST_COMPLETED \/ c <= 1

\* _on_completion's test with < for <=: under ALL_COMPLETED the waiter is
\* never set.
WaiterFiresNever(c) == yield_when = FIRST_COMPLETED \/ c < 0

\* _on_completion's test, on the counter it has just decremented.
WaiterFires(c) == yield_when = FIRST_COMPLETED \/ c <= 0

\* __anext__ listening only for the futures that are not done.
ListenPending == {i \in Slots : ~ iterating[i].done}

\* The futures __anext__ listens for: all but the already empty iterators.
Listen == {i \in Slots : ~ IsStop(iterating[i])}

\* What _repr_task shows of a future.
repr_task(f) ==
    IF f.done /\ f.res = "stop" THEN "Exhausted"
    ELSE IF f.done /\ f.res = "x" THEN "Failed"
    ELSE IF f.done THEN "Value"
    ELSE "Pending"

\* One entry of a returned row: the future of slot i, as the consumer sees
\* it when the row is returned (src and n say which fetch it is).
Entry(i) ==
    [src |-> asynchronous_iterators[i], n |-> iterating[i].n,
     tag |-> repr_task(iterating[i])]

\* results filled from the last future to the first.
ResultsReversed == [i \in Slots |-> Entry(Len(iterating) + 1 - i)]

\* results, filled in the order of self.iterating.
Results == [i \in Slots |-> Entry(i)]

\* The entries of a row that are a value or a failure.
Shown(row) == {i \in DOMAIN row : row[i].tag \in {"Value", "Failed"}}

\* The result loop without the StopAsyncIteration test of its first branch.
ReissuedAnyDone(L) == {i \in L : iterating[i].done}

\* The result loop without its elif branch.
ReissuedNone(L) == {}

\* The result loop with else for elif f.done().
ReissuedNotStop(L) == {i \in L : ~ IsStop(iterating[i])}

\* The futures the result loop replaces by a fresh fetch.
Reissued(L) == {i \in L : ~ IsStop(iterating[i]) /\ iterating[i].done}

\* The result loop without f.remove_done_callback(_on_completion).
RemoveDoneCallbackNone(L, cb) == cb

\* f.remove_done_callback(_on_completion) on every future listened for, as
\* the result loop does: cb is the number of callbacks attached per future.
RemoveDoneCallback(L, cb) == [i \in Sources |-> IF i \in L THEN 0 ELSE cb[i]]

\* stop_async_iterations without the count of the futures listened for.
StopCountSkipped(L) == Cardinality({i \in Slots : i \notin L})

\* stop_async_iterations at the end of the result loop.
StopCount(L) == Cardinality({i \in Slots : i \notin L \/ IsStop(iterating[i])})

\* The for loop of __aiter__ stuck on the first iterable.
NextIterableFirst == asynchronous_iterables[1]

\* The iterable the for loop of __aiter__ is at.
NextIterable == asynchronous_iterables[Len(asynchronous_iterators) + 1]

Init ==
    /\ yield_when \in {FIRST_COMPLETED, ALL_COMPLETED}
    /\ asynchronous_iterables \in {[i \in 1..k |-> i] : k \in 0..MaxSources}
    /\ asynchronous_iterators = <<>>
    /\ iterating = <<>>
    /\ fetched = [i \in Sources |-> 0]
    /\ resolved = [i \in Sources |-> 0]
    /\ starts = 0
    /\ aiterCalls = [i \in Sources |-> 0]
    /\ failures = 0
    /\ pc = "new"
    /\ counter = 0
    /\ waiter = FALSE
    /\ listenning_for = {}
    /\ callbacks = [i \in Sources |-> 0]
    /\ scheduled = {}
    /\ results = <<>>
    /\ nrows = 0
    /\ shown = [i \in Sources |-> 0]

\* __aiter__ is entered.
Aiter ==
    /\ pc = "new"
    /\ pc' = "aiter"
    /\ asynchronous_iterators' = <<>>
    /\ starts' = starts + 1
    /\ UNCHANGED <<yield_when, asynchronous_iterables, iterating, fetched,
                   resolved, aiterCalls, failures, counter, waiter,
                   listenning_for, callbacks, scheduled, results, nrows, shown>>

\* __aiter__: await iterable.__aiter__() for the next iterable.
ObtainIterator ==
    /\ pc = "aiter"
    /\ Len(asynchronous_iterators) < Len(asynchronous_iterables)
    /\ LET j == NextIterable
       IN /\ asynchronous_iterators' = Append(asynchronous_iterators, j)
          /\ aiterCalls' = [aiterCalls EXCEPT ![j] = @ + 1]
    /\ UNCHANGED <<yield_when, asynchronous_iterables, iterating, fetched,
                   resolved, starts, failures, pc, counter, waiter,
                   listenning_for, callbacks, scheduled, results, nrows, shown>>

\* __aiter__: one fetch is issued on every iterator, and __aiter__ returns.
IssueFirstFetches ==
    /\ pc = "aiter"
    /\ Len(asynchronous_iterators) = Len(asynchronous_iterables)
    /\ iterating' = [k \in 1..Len(asynchronous_iterators) |->
                        EnsureFuture(asynchronous_iterators[k])]
    /\ fetched' = [i \in Sources |-> fetched[i] + 1]
    /\ pc' = "idle"
    /\ UNCHANGED <<yield_when, asynchronous_iterables, asynchronous_iterators,
                   resolved, starts, aiterCalls, failures, counter, waiter,
                   listenning_for, callbacks, scheduled, results, nrows, shown>>

\* The fetch task of slot i resolves, to r; the loop schedules the
\* callbacks attached to its future.
FetchComplete(i, r) ==
    /\ pc \in {"idle", "waiting", "ended"}
    /\ i \in Slots
    /\ ~ iterating[i].done
    /\ r \in MayResolve(iterating[i])
    /\ iterating' = [iterating EXCEPT ![i].done = TRUE, ![i].res = r]
    /\ failures' = IF r = "x" THEN failures + 1 ELSE failures
    /\ scheduled' = IF callbacks[i] > 0 THEN scheduled \cup {i} ELSE scheduled
    /\ callbacks' = [callbacks EXCEPT ![i] = 0]
    /\ resolved' = [resolved EXCEPT ![asynchronous_iterators[i]] = @ + 1]
    /\ UNCHANGED <<yield_when, asynchronous_iterables, asynchronous_iterators,
                   fetched, starts, aiterCalls, pc, counter, waiter,
                   listenning_for, results, nrows, shown>>

\* The loop runs _on_completion for the future of slot i.
OnCompletion(i) ==
    /\ i \in scheduled
    /\ scheduled' = scheduled \ {i}
    /\ counter' = counter - 1
    /\ waiter' = (waiter \/ WaiterFires(counter - 1))
    /\ UNCHANGED <<yield_when, asynchronous_iterables, asynchronous_iterators,
                   iterating, fetched, resolved, starts, aiterCalls, failures,
                   pc, listenning_for, callbacks, results, nrows, shown>>

\* The result loop of __anext__ and its return or raise, for the futures L
\* listened for and the attached callbacks cb.  The locals of the call end
\* with it: an _on_completion the loop still has to run for this call can
\* only change the counter and the waiter of the call, which nothing reads
\* any more, so it is dropped here.
BuildResults(L, cb) ==
    /\ iterating' = [i \in Slots |->
                        IF i \in Reissued(L) THEN EnsureFuture(i) ELSE iterating[i]]
    /\ fetched' = [i \in Sources |->
                        IF i \in Reissued(L) THEN fetched[i] + 1 ELSE fetched[i]]
    /\ callbacks' = RemoveDoneCallback(L, cb)
    /\ scheduled' = {}
    /\ counter' = 0
    /\ waiter' = FALSE
    /\ listenning_for' = L
    /\ IF StopCount(L) = Len(iterating)
       THEN /\ pc' = "ended"
            /\ UNCHANGED <<results, nrows, shown>>
       ELSE /\ pc' = "idle"
            /\ results' = Results
            /\ nrows' = nrows + 1
            /\ shown' = [i \in Sources |->
                            IF i \in Shown(Results) THEN shown[i] + 1 ELSE shown[i]]

\* __anext__ is called: it attaches its callbacks, and goes on to its
\* results unless it should wait.
NextRow ==
    /\ pc \in {"idle", "ended"}
    /\ LET L == Listen
           cb == [i \in Sources |->
                    IF i \in L /\ ~ iterating[i].done
                    THEN callbacks[i] + 1 ELSE callbacks[i]]
       IN IF should_wait
          THEN /\ pc' = "waiting"
               /\ counter' = Cardinality(L)
               /\ waiter' = FALSE
               /\ listenning_for' = L
               /\ callbacks' = cb
               /\ scheduled' = {i \in L : iterating[i].done}
               /\ UNCHANGED <<iterating, fetched, results, nrows, shown>>
          ELSE BuildResults(L, cb)
    /\ UNCHANGED <<yield_when, asynchronous_iterables, asynchronous_iterators,
                   resolved, starts, aiterCalls, failures>>

\* __anext__ is resumed after await waiter.
Wake ==
    /\ pc = "waiting"
    /\ waiter
    /\ BuildResults(listenning_for, callbacks)
    /\ UNCHANGED <<yield_when, asynchronous_iterables, asynchronous_iterators,
                   resolved, starts, aiterCalls, failures>>

Next ==
    \/ Aiter
    \/ ObtainIterator
    \/ IssueFirstFetches
    \/ \E i \in Slots, r \in Resolutions : FetchComplete(i, r)
    \/ \E i \in Slots : OnCompletion(i)
    \/ NextRow
    \/ Wake

Spec == Init /\ [][Next]_vars

\* Sources that never fail, under the scheduling of the event loop and of a
\* consumer that keeps iterating: every issued fetch resolves, every
\* scheduled callback runs, a coroutine that can go on does, and the
\* consumer calls __anext__ again.
NextNoFailure ==
    \/ Aiter
    \/ ObtainIterator
    \/ IssueFirstFetches
    \/ \E i \in Slots, r \in {"v", "stop"} : FetchComplete(i, r)
    \/ \E i \in Slots : OnCompletion(i)
    \/ NextRow
    \/ Wake

FairSpec ==
    /\ Init
    /\ [][NextNoFailure]_vars
    /\ WF_vars(Aiter)
    /\ WF_vars(ObtainIterator)
    /\ WF_vars(IssueFirstFetches)
    /\ \A i \in 1..MaxSources : WF_vars(\E r \in {"v", "stop"} : FetchComplete(i, r))
    /\ \A i \in 1..MaxSources : WF_vars(OnCompletion(i))
    /\ WF_vars(NextRow)
    /\ WF_vars(Wake)

\* __aiter__ is called again on an AsyncZip that has been started, between
\* two calls of __anext__ or after the end.  The fetches of the futures it
\* is about to replace go on under the loop, and nothing reads them any more.
AiterAgain ==
    /\ pc \in {"idle", "ended"}
    /\ starts < MaxStarts
    /\ pc' = "aiter"
    /\ asynchronous_iterators' = <<>>
    /\ starts' = starts + 1
    /\ results' = <<>>
    /\ nrows' = 0
    /\ shown' = [i \in Sources |-> 0]
    /\ UNCHANGED <<yield_when, asynchronous_iterables, iterating, fetched,
                   resolved, aiterCalls, failures, counter, waiter,
                   listenning_for, callbacks, scheduled>>

NextRestart ==
    \/ NextNoFailure
    \/ AiterAgain

\* An AsyncZip whose __aiter__ may be called more than once, over sources
\* that do not fail; the rows counted are those of the current iteration.
SpecRestart == Init /\ [][NextRestart]_vars

-----------------------------------------------------------------------------
\* Properties.

\* The last call of __anext__ returned the row in results, and
\* listenning_for holds the slots that were not exhausted when it started.
RowReturned == pc = "idle" /\ nrows > 0

\* A step in which __anext__ runs its result loop and returns or raises.
BuildStep ==
    \/ pc = "waiting" /\ pc' # "waiting"
    \/ pc \in {"idle", "ended"} /\ (nrows' # nrows \/ pc' = "ended")

\* Items source i has yielded so far.
Yielded(i) ==
    IF DoneNotStop(iterating[i]) THEN iterating[i].n ELSE iterating[i].n - 1

\* C1: under ALL_COMPLETED, a returned row has no Pending entry for a slot
\* that was not exhausted when the call started.
C1_AllCompletedNoPending ==
    (yield_when = ALL_COMPLETED /\ RowReturned) =>
        \A i \in listenning_for : results[i].tag # "Pending"

\* An ALL_COMPLETED row with a value and a slot that exhausted in this round.
C1_Witness ==
    /\ yield_when = ALL_COMPLETED /\ RowReturned
    /\ \E i \in listenning_for : results[i].tag = "Value"
    /\ \E i \in listenning_for : results[i].tag = "Exhausted"

\* C2: under FIRST_COMPLETED, a returned row has an entry that is not
\* Pending for some slot that was not exhausted when the call started.
C2_FirstCompletedProgress ==
    (yield_when = FIRST_COMPLETED /\ RowReturned) =>
        \E i \in listenning_for : results[i].tag # "Pending"

\* A FIRST_COMPLETED row whose only news is a slot that exhausted in this
\* round, the other slot being Pending.
C2_Witness ==
    /\ yield_when = FIRST_COMPLETED /\ RowReturned
    /\ \E i \in listenning_for : results[i].tag = "Exhausted"
    /\ \E i \in listenning_for : results[i].tag = "Pending"
    /\ \A i \in listenning_for : results[i].tag \in {"Exhausted", "Pending"}

\* C3: a returned row has one entry per iterable given to __init__, and
\* entry i is the state of the fetch of source i that was current when the
\* row was built.
C3_RowMatchesSources ==
    nrows > 0 =>
        /\ Len(results) = Len(asynchronous_iterables)
        /\ \A i \in DOMAIN results :
              /\ results[i].src = asynchronous_iterables[i]
              /\ results[i].n = IF results[i].tag \in {"Value", "Failed"}
                                THEN fetched[i] - 1 ELSE fetched[i]
              /\ results[i].tag \in {"Pending", "Exhausted"} =>
                    iterating[i].n = results[i].n
              /\ results[i].tag = "Exhausted" => IsStop(iterating[i])

\* A row in which a later source has a value while an earlier one is Pending,
\* and the two sources are at different fetches.
C3_Witness ==
    /\ nrows > 0
    /\ Len(results) = 2
    /\ results[1].tag = "Pending"
    /\ results[2].tag = "Value"
    /\ results[2].n = 2

\* C4: a slot shown as Exhausted in a returned row is shown as Exhausted in
\* the next returned row, hence in every later one.
C4_ExhaustedStaysExhausted ==
    [][\A i \in DOMAIN results :
          results[i].tag = "Exhausted" =>
              i \in DOMAIN results' /\ results'[i].tag = "Exhausted"]_vars

\* Under ALL_COMPLETED the second row shows Exhausted for a source without
\* items, which the first row showed as Exhausted too.
C4_Witness ==
    /\ yield_when = ALL_COMPLETED
    /\ nrows = 2
    /\ \E i \in DOMAIN results : results[i].tag = "Exhausted" /\ results[i].n = 1

\* C5: once the fetch of a slot has resolved to StopAsyncIteration, no step
\* issues another __anext__() on its iterator.
C5_NoFetchAfterStop ==
    [][\A i \in Slots :
          IsStop(iterating[i]) =>
              fetched'[asynchronous_iterators[i]] = fetched[asynchronous_iterators[i]]]_vars

\* A row was built while a slot was exhausted and another one got a fresh fetch.
C5_Witness ==
    /\ RowReturned
    /\ \E i \in Slots : IsStop(iterating[i]) /\ i \notin listenning_for
    /\ \E i \in Slots : results[i].tag = "Value" /\ fetched[i] = 3

\* C6: __anext__ raises StopAsyncIteration exactly when every future is
\* exhausted as it builds its result, and returns a row otherwise; no
\* returned row is made of Exhausted entries only.
C6_EndIffAllExhausted ==
    /\ [][BuildStep =>
            /\ (pc' = "ended") <=> (\A i \in Slots : IsStop(iterating[i]))
            /\ pc' # "ended" => (pc' = "idle" /\ nrows' = nrows + 1)]_vars
    /\ [](nrows > 0 => \E i \in DOMAIN results : results[i].tag # "Exhausted")

\* The end is signalled after rows were returned, the last of them showing an
\* exhausted slot.
C6_Witness ==
    /\ pc = "ended"
    /\ nrows > 0
    /\ \E i \in DOMAIN results : results[i].tag = "Exhausted"
    /\ Len(results) = 2

\* C7: under ALL_COMPLETED, as long as no fetch has failed, row k holds the
\* k-th item of every source that has one and Exhausted for the others, and
\* at the end there are as many rows as the longest source has items.
C7_AllCompletedIsZip ==
    (yield_when = ALL_COMPLETED /\ failures = 0) =>
        /\ nrows > 0 =>
              \A i \in DOMAIN results :
                  \/ results[i].tag = "Value" /\ results[i].n = nrows
                  \/ results[i].tag = "Exhausted" /\ results[i].n <= nrows
        /\ pc = "ended" =>
              /\ \A i \in Slots : Yielded(i) <= nrows
              /\ Slots # {} => \E i \in Slots : Yielded(i) = nrows
              /\ Slots = {} => nrows = 0

\* Sources of 1 and 2 items under ALL_COMPLETED: the end, after the row that
\* has Exhausted for the first and the second item of the second.
C7_Witness ==
    /\ yield_when = ALL_COMPLETED /\ failures = 0
    /\ pc = "ended"
    /\ nrows = 2
    /\ Len(results) = 2
    /\ results[1].tag = "Exhausted" /\ results[1].n = 2
    /\ results[2].tag = "Value" /\ results[2].n = 2

\* C8: the entries of source i that are not Pending are its items in order,
\* each once (the k-th of them is the k-th fetch), then Exhausted only, and
\* at the end every item has been returned.
C8_ColumnsAreSources ==
    /\ \A i \in DOMAIN results :
          /\ results[i].tag \in {"Value", "Failed"} =>
                results[i].n = shown[results[i].src]
          /\ results[i].tag \in {"Exhausted", "Pending"} =>
                results[i].n = shown[results[i].src] + 1
    /\ \A i \in Slots : shown[i] <= Yielded(i)
    /\ pc = "ended" => \A i \in Slots : shown[i] = Yielded(i)

\* Under FIRST_COMPLETED, the end after a source has had two items returned
\* in more rows than it has items.
C8_Witness ==
    /\ yield_when = FIRST_COMPLETED
    /\ pc = "ended"
    /\ nrows >= 3
    /\ \E i \in Slots : shown[i] = 2

\* C9: when __anext__ builds its result while the fetch of slot i has failed,
\* it returns a row, whose entry i is that fetch, shown as Failed.
C9_FailureIsReported ==
    [][\A i \in Slots :
          (BuildStep /\ iterating[i].done /\ iterating[i].res = "x") =>
              /\ pc' = "idle"
              /\ nrows' = nrows + 1
              /\ results'[i].tag = "Failed"
              /\ results'[i].n = iterating[i].n
              /\ results'[i].src = asynchronous_iterators[i]]_vars

\* A returned row shows a failure, every other slot being exhausted.
C9_Witness ==
    /\ RowReturned
    /\ \E i \in DOMAIN results : results[i].tag = "Failed"
    /\ \A i \in DOMAIN results : results[i].tag \in {"Failed", "Exhausted"}

\* C10: with sources that never fail and yield at most MaxItems items, a
\* loop that resolves every fetch and a consumer that keeps calling
\* __anext__, the end of the iteration is eventually signalled.
C10_EventuallyEnds == <>(pc = "ended")

\* The end under FIRST_COMPLETED, without a failure, after three rows.
C10_Witness ==
    /\ pc = "ended"
    /\ failures = 0
    /\ yield_when = FIRST_COMPLETED
    /\ nrows = 3

\* C11: without iterables, no row is ever returned and __anext__ never
\* waits: the first call after __aiter__ raises StopAsyncIteration.
C11_NoSourcesNoRows ==
    /\ [](Len(asynchronous_iterables) = 0 => (nrows = 0 /\ pc # "waiting"))
    /\ [][(Len(asynchronous_iterables) = 0 /\ pc = "idle") => pc' = "ended"]_vars

\* An AsyncZip of no iterable has been started and has signalled the end.
C11_Witness ==
    /\ Len(asynchronous_iterables) = 0
    /\ starts = 1
    /\ pc = "ended"

\* C12 as stated: the result loop issues a fresh fetch for a slot exactly when
\* its future has resolved to a value.
C12_FetchIffValue ==
    [][BuildStep =>
          \A i \in Slots :
              (fetched'[i] # fetched[i]) <=>
                  (iterating[i].done /\ iterating[i].res = "v")]_vars

\* C12, amended: the result loop issues one fresh fetch for a slot exactly
\* when its future has resolved to a value or to an exception that is not
\* StopAsyncIteration, and none when it is exhausted or pending.
C12_FetchIffDoneNotStop ==
    [][BuildStep =>
          \A i \in Slots :
              /\ fetched'[i] = (IF DoneNotStop(iterating[i])
                                THEN fetched[i] + 1 ELSE fetched[i])
              /\ DoneNotStop(iterating[i]) =>
                    (~ iterating'[i].done /\ iterating'[i].n = fetched'[i])]_vars

\* A row was returned with a failed fetch, a fresh fetch was issued on its
\* source, and none on a source shown as Pending.
C12_Witness ==
    /\ RowReturned
    /\ \E i \in DOMAIN results :
          results[i].tag = "Failed" /\ fetched[i] = results[i].n + 1
    /\ \E i \in DOMAIN results :
          results[i].tag = "Pending" /\ fetched[i] = results[i].n

\* Fetches issued on iterator i that have not resolved.
InFlight(i) == fetched[i] - resolved[i]

\* C13: once started, every iterator has at most one unresolved fetch, which
\* is the future of its slot, and none when the slot is exhausted; a future
\* that is pending when a result is built stays the future of its slot.
C13_OneFetchInFlight ==
    /\ [](pc \notin {"new", "aiter"} =>
            \A i \in Slots :
                /\ InFlight(i) = (IF iterating[i].done THEN 0 ELSE 1)
                /\ IsStop(iterating[i]) => InFlight(i) = 0)
    /\ [][BuildStep =>
            \A i \in Slots :
                ~ iterating[i].done => iterating'[i] = iterating[i]]_vars

\* A row was returned with a slot already exhausted and a slot Pending, whose
\* fetch is still the one in flight.
C13_Witness ==
    /\ RowReturned
    /\ \E i \in Slots : IsStop(iterating[i]) /\ InFlight(i) = 0
    /\ \E i \in Slots :
          /\ results[i].tag = "Pending"
          /\ ~ iterating[i].done
          /\ iterating[i].n = results[i].n
          /\ InFlight(i) = 1

\* The ready predicate when __anext__ is called, A being the slots that are
\* not exhausted: A is empty, or one of A (FIRST_COMPLETED) or all of A
\* (ALL_COMPLETED) have resolved.
Ready ==
    LET A == {i \in Slots : ~ IsStop(iterating[i])}
    IN \/ A = {}
       \/ yield_when = FIRST_COMPLETED /\ \E i \in A : iterating[i].done
       \/ yield_when = ALL_COMPLETED /\ \A i \in A : iterating[i].done

\* C14: a call of __anext__ made when the ready predicate holds does not
\* suspend on the waiter.
C14_ReadyDoesNotSuspend ==
    [][(pc \in {"idle", "ended"} /\ Ready) => pc' # "waiting"]_vars

C16_EndedIsTerminal ==
    [][pc = "ended" =>
          /\ pc' = "ended"
          /\ UNCHANGED <<nrows, results, shown, fetched, iterating>>]_vars

\* The state a call of __anext__ made after the end leaves: ended, with
\* nothing listened for, after rows of two sources.
C16_Witness ==
    /\ pc = "ended"
    /\ listenning_for = {}
    /\ Len(iterating) = 2
    /\ nrows > 0

\* C17: while __aiter__ runs no fetch is issued, and it returns having issued
\* one fetch on every iterator, none of them resolved.
C17_StartIssuesWithoutWaiting ==
    /\ [](pc = "aiter" => \A i \in Sources : fetched[i] = 0)
    /\ [][(pc = "aiter" /\ pc' = "idle") =>
            /\ Len(iterating') = Len(asynchronous_iterables)
            /\ \A i \in Sources :
                  /\ fetched'[i] = 1
                  /\ resolved'[i] = 0
                  /\ ~ iterating'[i].done]_vars

\* __aiter__ has returned for two iterables: one fetch each, both pending.
C17_Witness ==
    /\ pc = "idle"
    /\ nrows = 0
    /\ Len(iterating) = 2
    /\ \A i \in Slots : fetched[i] = 1 /\ ~ iterating[i].done

\* C18 as stated: whatever the calls made on the AsyncZip, __aiter__() is
\* called at most once on each iterable, and once when it has started.
C18_AiterOncePerSource ==
    \A i \in Sources :
        /\ aiterCalls[i] <= 1
        /\ pc \in {"idle", "waiting", "ended"} => aiterCalls[i] = 1

\* C18, amended: every call of __aiter__ on the AsyncZip calls __aiter__()
\* once on each iterable, in their order, so that an iterable has had as many
\* calls as the AsyncZip has had starts.
C18_AiterOncePerStart ==
    \A i \in Sources :
        aiterCalls[i] = IF pc = "aiter" /\ i > Len(asynchronous_iterators)
                        THEN starts - 1 ELSE starts

\* The second __aiter__ of an AsyncZip of two iterables has returned.
C18_Witness ==
    /\ starts = 2
    /\ pc = "idle"
    /\ Len(asynchronous_iterables) = 2
    /\ \A i \in Sources : aiterCalls[i] = 2

\* C19: when __anext__ has returned or raised the end, no future still
\* pending carries _on_completion, and no future ever carries it more than
\* once, however many FIRST_COMPLETED rows it stays pending through.
C19_CallbackDetached ==
    /\ \A i \in Slots : callbacks[i] <= 1
    /\ pc \in {"idle", "ended"} =>
           \A i \in Slots : ~iterating[i].done => callbacks[i] = 0

\* Two FIRST_COMPLETED rows have been returned while the first fetch of
\* some iterator stayed pending; it was listened for twice and carries no
\* callback now.
C19_Witness ==
    /\ yield_when = FIRST_COMPLETED
    /\ pc = "idle"
    /\ nrows >= 2
    /\ \E i \in Slots :
           /\ ~iterating[i].done
           /\ iterating[i].n = 1
           /\ i \in listenning_for
           /\ callbacks[i] = 0

====
